---- MODULE Spec2Model ----
(***************************************************************************)
(* Client-side tabular data engine of the dashboard:                       *)
(*   - useVirtualScroll (window computation) as driven by DataTable,       *)
(*   - TableWidget (filter -> sort -> page slice, selection),              *)
(*   - globalFilterFn of useDataTable,                                     *)
(*   - the CSV writers generateCSV and exportToCSV.                        *)
(* Each component has its own specification over its own variables; the    *)
(* variables of the other components stay at their initial values.         *)
(***************************************************************************)
EXTENDS Integers, Sequences, FiniteSets, TLC

VARIABLES
  \* ---- useVirtualScroll / DataTable (virtual mode) ----
  rowCount,         \* allRows.length of DataTable
  estimateSize,     \* options.estimateSize
  overscan,         \* options.overscan
  containerHeight,  \* options.containerHeight
  enabled,          \* options.enabled (enableVirtualScrolling)
  scrollTop,        \* useState(0) of useVirtualScroll
  loading,          \* DataTable is in its loading/error early return
  listening,        \* the scroll listener is attached to the mounted container
  \* ---- TableWidget ----
  data,             \* props.data
  columns,          \* props.columns
  rowKey,           \* props.rowKey: "id" (a key of the row) or "none"
  pageSize,         \* props.pageSize (0 = no pagination)
  sort,             \* useState<SortState>
  columnFilters,    \* useState<Record<string, string>>
  page,             \* useState(0)
  selectedIds,      \* useState<Set<string>>
  sortedData,       \* the memoized sortedData
  \* ---- CSV export (generateCSV, exportToCSV) ----
  csvHeaders,       \* the header texts (column headers / object keys)
  csvRows,          \* the data rows, one cell value per header
  csvWriter,        \* the function that produced csvOutput, or "none"
  csvOutput,        \* the CSV text handed to the download
  \* ---- row access through a function accessor ----
  accessOutcome,    \* "none", or how the last derivation or export ended
  \* ---- DataTable / useDataTable (row selection) ----
  dtData,           \* options.data
  rowSelection,     \* useState<RowSelectionState>: the selected row ids
  dtSelectedRows,   \* the memoized selectedRows
  batchRows,        \* the rows of the last onBatchAction call
  \* ---- useWebSocket ----
  sockets,          \* every WebSocket created so far, by its state
  socketRef,        \* socketRef.current: index into sockets, 0 = null
  reconnectAttemptsRef,
  reconnectTimers,  \* the pending setTimeout(connect) timers
  reconnectTimerRef,\* reconnectTimerRef.current: a timer id, 0 = null
  timeoutCount,     \* timer ids handed out by setTimeout
  heartbeatTimerRef,\* TRUE while the heartbeat interval is set
  readyState,       \* useState<ReadyState>
  disconnected,     \* the caller's last call was disconnect()
  \* ---- useCachedWidget ----
  currentFilterHash,\* hash of the dashboard filters
  fetches,          \* every fetcher call so far: filter hash and status
  cwData,           \* useState data: 0 = null, k = result of fetch k
  cacheRef,         \* cacheRef.current
  \* ---- useSmartPolling ----
  isPolling,        \* useState(enabled)
  documentHidden,   \* document.hidden
  timerRef,         \* timerRef.current: an interval id, 0 = null
  intervals,        \* the active setInterval timers
  intervalCount,    \* interval ids handed out by setInterval
  timerFetches      \* doFetch calls made by an interval timer

wvars == <<rowCount, estimateSize, overscan, containerHeight, enabled,
           scrollTop, loading, listening>>

tvars == <<data, columns, rowKey, pageSize, sort, columnFilters, page,
           selectedIds, sortedData>>

cvars == <<csvHeaders, csvRows, csvWriter, csvOutput>>

avars == <<accessOutcome>>

dvars == <<dtData, rowSelection, dtSelectedRows, batchRows>>

svars == <<sockets, socketRef, reconnectAttemptsRef, reconnectTimers,
           reconnectTimerRef, timeoutCount, heartbeatTimerRef, readyState,
           disconnected>>

fvars == <<currentFilterHash, fetches, cwData, cacheRef>>

pvars == <<isPolling, documentHidden, timerRef, intervals, intervalCount,
           timerFetches>>

\* the hooks outside the table, the window and the CSV writers
hvars == <<avars, dvars, svars, fvars, pvars>>

vars == <<wvars, tvars, cvars, hvars>>

(***************************************************************************)
(* Bounds                                                                  *)
(***************************************************************************)
MaxCount == 6
MaxExtent == 3
MaxViewport == 5
MaxOverscan == 2

(***************************************************************************)
(* Arithmetic helpers (Math.max, Math.min, Math.floor, Math.ceil)          *)
(***************************************************************************)
MathMax(a, b) == IF a >= b THEN a ELSE b

MathMin(a, b) == IF a <= b THEN a ELSE b

MathFloorDiv(a, b) == a \div b

MathCeilDiv(a, b) == (a + b - 1) \div b

(***************************************************************************)
(* useVirtualScroll                                                        *)
(***************************************************************************)
\* DataTable: count: enableVirtualScrolling ? allRows.length : 0
countOf(en, n) == IF en THEN n ELSE 0

count == countOf(enabled, rowCount)

\* totalHeight = count * estimateSize
totalHeightOf(c, est) == c * est

startIndexNoClamp(st, est, ov) == MathFloorDiv(st, est) - ov

\* startIndex = Math.max(0, Math.floor(scrollTop / estimateSize) - overscan)
startIndexOf(st, est, ov) == MathMax(0, MathFloorDiv(st, est) - ov)

visibleCountFloor(ch, est) == MathFloorDiv(ch, est)

\* visibleCount = Math.ceil(containerHeight / estimateSize)
visibleCountOf(ch, est) == MathCeilDiv(ch, est)

\* endIndex = Math.min(count - 1, startIndex + visibleCount + overscan * 2)
endIndexOf(c, st, est, ch, ov) ==
  MathMin(c - 1, startIndexOf(st, est, ov) + visibleCountOf(ch, est) + ov * 2)

\* the useMemo body: the items pushed by the for loop, in order
virtualRowsOf(c, est, ov, ch, st, en) ==
  IF ~en \/ c = 0 THEN <<>>
  ELSE LET s == startIndexOf(st, est, ov)
           e == endIndexOf(c, st, est, ch, ov)
       IN IF e < s THEN <<>>
          ELSE [k \in 1..(e - s + 1) |->
                  [index |-> s + k - 1,
                   start |-> (s + k - 1) * est,
                   end   |-> (s + k) * est,
                   size  |-> est]]

virtualRows ==
  virtualRowsOf(count, estimateSize, overscan, containerHeight, scrollTop, enabled)

\* indices materialized by a list of virtual items
Indices(items) == {items[k].index : k \in 1..Len(items)}

\* largest scroll offset the container can report for its content
maxScrollTop == MathMax(0, totalHeightOf(count, estimateSize) - containerHeight)


(***************************************************************************)
(* JavaScript values and strings                                           *)
(* A string is a sequence of one-character strings. A cell value is a      *)
(* record: a number, a string, null or undefined.                          *)
(***************************************************************************)
Num(n) == [t |-> "num", n |-> n, s |-> <<>>]

Str(chars) == [t |-> "str", n |-> 0, s |-> chars]

Null == [t |-> "null", n |-> 0, s |-> <<>>]

Undefined == [t |-> "undef", n |-> 0, s |-> <<>>]

Digits == <<"0", "1", "2", "3", "4", "5", "6", "7", "8", "9">>

\* UTF-16 code units of the characters used
CharCode(c) ==
  CASE c = "0" -> 48 [] c = "1" -> 49 [] c = "2" -> 50 [] c = "3" -> 51
    [] c = "4" -> 52 [] c = "5" -> 53 [] c = "6" -> 54 [] c = "7" -> 55
    [] c = "8" -> 56 [] c = "9" -> 57
    [] c = "A" -> 65 [] c = "B" -> 66
    [] c = "a" -> 97 [] c = "b" -> 98

IsDigit(c) == CharCode(c) >= 48 /\ CharCode(c) <= 57

\* String(n) for a non-negative integer below 100
NumToString(n) ==
  IF n < 10 THEN <<Digits[n + 1]>>
  ELSE <<Digits[(n \div 10) + 1], Digits[(n % 10) + 1]>>

\* String(value) for a value that is not null or undefined
ToStringJS(v) == IF v.t = "num" THEN NumToString(v.n) ELSE v.s

LowerChar(c) == IF c = "A" THEN "a" ELSE IF c = "B" THEN "b" ELSE c

\* String.prototype.toLowerCase
ToLowerCase(str) == [k \in 1..Len(str) |-> LowerChar(str[k])]

\* String.prototype.includes
Includes(hay, needle) ==
  \E k \in 0..(Len(hay) - Len(needle)) :
    SubSeq(hay, k + 1, k + Len(needle)) = needle

\* value ?? ''  followed by String(...)
StringOrEmpty(v) == IF v.t \in {"null", "undef"} THEN <<>> ELSE ToStringJS(v)

\* ToNumber: <<TRUE, n>> for a number, <<FALSE, 0>> for NaN
RECURSIVE DigitsValue(_)
DigitsValue(str) ==
  IF str = <<>> THEN 0
  ELSE 10 * DigitsValue(SubSeq(str, 1, Len(str) - 1))
         + (CharCode(str[Len(str)]) - 48)

ToNumber(v) ==
  CASE v.t = "num" -> <<TRUE, v.n>>
    [] v.t = "null" -> <<TRUE, 0>>
    [] v.t = "undef" -> <<FALSE, 0>>
    [] v.t = "str" ->
         IF \A k \in 1..Len(v.s) : IsDigit(v.s[k])
         THEN <<TRUE, DigitsValue(v.s)>> ELSE <<FALSE, 0>>

\* code-unit order of two strings
RECURSIVE StringLess(_, _)
StringLess(x, y) ==
  IF y = <<>> THEN FALSE
  ELSE IF x = <<>> THEN TRUE
  ELSE IF CharCode(x[1]) # CharCode(y[1]) THEN CharCode(x[1]) < CharCode(y[1])
  ELSE StringLess(Tail(x), Tail(y))

\* the < operator: two strings compare by code units, anything else by
\* ToNumber, and a comparison with NaN is false
LessThan(a, b) ==
  IF a.t = "str" /\ b.t = "str" THEN StringLess(a.s, b.s)
  ELSE LET na == ToNumber(a)
           nb == ToNumber(b)
       IN na[1] /\ nb[1] /\ na[2] < nb[2]

(***************************************************************************)
(* TableWidget: rows, columns and props                                    *)
(***************************************************************************)
\* props at which the operations below are offered by the rendered table
sortable == TRUE

filterable == TRUE

selectable == TRUE

\* row identities, by position in a generated dataset
Ids == <<<<"a">>, <<"b">>, <<"c">>, <<"d">>, <<"e">>>>

\* cell values <<v, name>> a generated row is drawn from
CellPool ==
  { <<Num(3), Str(<<"A", "b">>)>>,
    <<Num(12), Str(<<"a">>)>>,
    <<Num(2), Str(<<"b", "2">>)>>,
    <<Null, Str(<<"B">>)>>,
    <<Undefined, Null>> }

MakeData(cells) ==
  [k \in 1..Len(cells) |-> [id |-> Ids[k], v |-> cells[k][1], name |-> cells[k][2]]]

\* every dataset of at most n generated rows
AllData(n) ==
  UNION {{MakeData(cells) : cells \in [1..len -> CellPool]} : len \in 0..n}

\* the column model: two columns read by key, each with its filterable flag
ColumnDefs(fv, fname) ==
  << [id |-> "v", accessor |-> "v", filterable |-> fv],
     [id |-> "name", accessor |-> "name", filterable |-> fname] >>

ColumnIds == {"v", "name"}

\* a columnId that no column of the column model has
InvalidColumnId == "zz"

\* the keys the columnFilters record is followed on
FilterKeys == ColumnIds \cup {InvalidColumnId}

NoFilters == [c \in FilterKeys |-> <<>>]

NoSort == [columnId |-> "", direction |-> "none"]

Range(seq) == {seq[k] : k \in 1..Len(seq)}

\* getRowId(row, rowKey, index)
getRowId(row, rk, index) ==
  IF rk = "id" THEN row.id ELSE NumToString(index)

\* getCellValue(row, accessor) for a key accessor
getCellValue(row, accessor) == row[accessor]

(***************************************************************************)
(* TableWidget: derived view                                               *)
(***************************************************************************)
passesColumnNoSkip(row, col, cf) ==
  LET filterText == cf[col.id]
      cellVal == ToLowerCase(StringOrEmpty(getCellValue(row, col.accessor)))
  IN filterText # <<>> /\ Includes(cellVal, ToLowerCase(filterText))

passesColumnCaseSensitive(row, col, cf) ==
  LET filterText == cf[col.id]
      cellVal == ToLowerCase(StringOrEmpty(getCellValue(row, col.accessor)))
  IN IF filterText = <<>> THEN TRUE
     ELSE Includes(cellVal, filterText)

\* the callback of columns.every in filteredData
passesColumn(row, col, cf) ==
  LET filterText == cf[col.id]
      cellVal == ToLowerCase(StringOrEmpty(getCellValue(row, col.accessor)))
  IN IF filterText = <<>> THEN TRUE
     ELSE Includes(cellVal, ToLowerCase(filterText))

\* filteredData
filteredDataOf(d, cols, cf) ==
  IF ~filterable THEN d
  ELSE LET keep(row) == \A k \in 1..Len(cols) : passesColumn(row, cols[k], cf)
       IN SelectSeq(d, keep)

\* the comparator passed to Array.prototype.sort in sortedData
compareRows(a, b, accessor, direction) ==
  LET aVal == getCellValue(a, accessor)
      bVal == getCellValue(b, accessor)
      cmp == IF LessThan(aVal, bVal) THEN -1
             ELSE IF LessThan(bVal, aVal) THEN 1 ELSE 0
  IN IF direction = "asc" THEN cmp ELSE -cmp

\* a comparator is consistent on a set of rows when it orders them as a
\* strict weak order (the precondition of Array.prototype.sort)
ConsistentComparator(rows, accessor, direction) ==
  \A a \in rows, b \in rows, c \in rows :
    LET ab == compareRows(a, b, accessor, direction)
        bc == compareRows(b, c, accessor, direction)
        ac == compareRows(a, c, accessor, direction)
    IN /\ (ab = 0 /\ bc = 0) => ac = 0
       /\ (ab < 0 /\ bc < 0) => ac < 0

RECURSIVE InsertSorted(_, _, _, _)
InsertSorted(sorted, x, accessor, direction) ==
  IF sorted = <<>> THEN <<x>>
  ELSE IF compareRows(x, sorted[Len(sorted)], accessor, direction) < 0
       THEN Append(InsertSorted(SubSeq(sorted, 1, Len(sorted) - 1), x,
                                accessor, direction),
                   sorted[Len(sorted)])
       ELSE Append(sorted, x)

\* the stable sort of a sequence under a consistent comparator
RECURSIVE StableSort(_, _, _)
StableSort(seq, accessor, direction) ==
  IF seq = <<>> THEN <<>>
  ELSE InsertSorted(StableSort(SubSeq(seq, 1, Len(seq) - 1), accessor, direction),
                    seq[Len(seq)], accessor, direction)

Reorderings(seq) ==
  {[k \in 1..Len(seq) |-> seq[f[k]]] :
     f \in {g \in [1..Len(seq) -> 1..Len(seq)] :
              \A i, j \in 1..Len(seq) : i # j => g[i] # g[j]}}

\* [...seq].sort(comparator): stable for a consistent comparator; for an
\* inconsistent one the order is implementation-defined
ArraySort(seq, accessor, direction) ==
  IF ConsistentComparator(Range(seq), accessor, direction)
  THEN {StableSort(seq, accessor, direction)}
  ELSE Reorderings(seq)

\* columns.find((c) => c.id === sort.columnId)
FindColumn(cols, columnId) ==
  IF \E k \in 1..Len(cols) : cols[k].id = columnId
  THEN <<cols[CHOOSE k \in 1..Len(cols) :
                 /\ cols[k].id = columnId
                 /\ \A j \in 1..(k - 1) : cols[j].id # columnId]>>
  ELSE <<>>

\* the values sortedData may take for a filtered sequence
sortedDataOf(fd, srt, cols) ==
  IF srt.direction = "none" \/ srt.columnId = "" THEN {fd}
  ELSE LET col == FindColumn(cols, srt.columnId)
       IN IF col = <<>> THEN {fd}
          ELSE ArraySort(fd, col[1].accessor, srt.direction)

\* Array.prototype.slice(begin, end) for 0 <= begin <= end
Slice(seq, begin, end) ==
  SubSeq(seq, MathMin(begin, Len(seq)) + 1, MathMin(end, Len(seq)))

\* totalPages
totalPagesOf(sd, ps) == IF ps > 0 THEN MathCeilDiv(Len(sd), ps) ELSE 1

paginatedDataClamped(sd, p, ps) ==
  IF ps > 0
  THEN LET q == MathMin(p, MathMax(0, totalPagesOf(sd, ps) - 1))
       IN Slice(sd, q * ps, (q + 1) * ps)
  ELSE sd

paginatedDataFromOne(sd, p, ps) ==
  IF ps > 0 THEN Slice(sd, p * ps + 1, (p + 1) * ps) ELSE sd

\* paginatedData
paginatedDataOf(sd, p, ps) ==
  IF ps > 0 THEN Slice(sd, p * ps, (p + 1) * ps) ELSE sd

(***************************************************************************)
(* useDataTable: globalFilterFn                                            *)
(***************************************************************************)
\* globalFilterFn(row, columnId, filterValue): row.getAllCells() holds one
\* cell per column
globalFilterFn(row, cols, filterValue) ==
  LET search == ToLowerCase(filterValue)
      cellText(k) ==
        LET value == getCellValue(row, cols[k].accessor)
        IN IF value.t \notin {"null", "undef"}
           THEN ToLowerCase(ToStringJS(value)) ELSE <<>>
  IN IF search = <<>> THEN TRUE
     ELSE \E k \in 1..Len(cols) : Includes(cellText(k), search)

(***************************************************************************)
(* CSV export: generateCSV (table export) and exportToCSV (dashboard)      *)
(***************************************************************************)
RECURSIVE ReplaceQuotes(_)
\* str.replace(/"/g, '""')
ReplaceQuotes(str) ==
  IF str = <<>> THEN <<>>
  ELSE LET front == ReplaceQuotes(SubSeq(str, 1, Len(str) - 1))
           last == str[Len(str)]
       IN IF last = "\"" THEN front \o <<"\"", "\"">> ELSE Append(front, last)

RECURSIVE Join(_, _)
\* Array.prototype.join(sep) of an array of strings
Join(strs, sep) ==
  IF strs = <<>> THEN <<>>
  ELSE IF Len(strs) = 1 THEN strs[1]
  ELSE Join(SubSeq(strs, 1, Len(strs) - 1), sep) \o sep \o strs[Len(strs)]

escapeCSVNoComma(value) ==
  IF value.t \in {"null", "undef"} THEN <<>>
  ELSE LET str == ToStringJS(value)
       IN IF \/ Includes(str, <<"\"">>)
             \/ Includes(str, <<"\n">>)
             \/ Includes(str, <<"\r">>)
          THEN <<"\"">> \o ReplaceQuotes(str) \o <<"\"">>
          ELSE str

\* escapeCSV(value) of the table export
escapeCSV(value) ==
  IF value.t \in {"null", "undef"} THEN <<>>
  ELSE LET str == ToStringJS(value)
       IN IF \/ Includes(str, <<",">>)
             \/ Includes(str, <<"\"">>)
             \/ Includes(str, <<"\n">>)
             \/ Includes(str, <<"\r">>)
          THEN <<"\"">> \o ReplaceQuotes(str) \o <<"\"">>
          ELSE str

\* generateCSV({columns, data}): headers are the col.header strings, a row
\* holds getCellValue(row, col.accessor) for each column
generateCSV(headers, rows) ==
  LET header == Join([k \in 1..Len(headers) |-> escapeCSV(Str(headers[k]))],
                     <<",">>)
      line(r) == Join([k \in 1..Len(headers) |-> escapeCSV(rows[r][k])], <<",">>)
  IN Join(<<header>> \o [r \in 1..Len(rows) |-> line(r)], <<"\r", "\n">>)

\* escapeCSV(value: string) of exportDashboard
exportDashboard_escapeCSV(value) ==
  IF \/ Includes(value, <<",">>)
     \/ Includes(value, <<"\"">>)
     \/ Includes(value, <<"\n">>)
  THEN <<"\"">> \o ReplaceQuotes(value) \o <<"\"">>
  ELSE value

\* csvContent of exportToCSV(data) for a non-empty data: headers are
\* Object.keys(data[0]), a row holds String(row[header] ?? '') for each header
exportToCSV_csvContent(headers, rows) ==
  LET header == Join([k \in 1..Len(headers) |->
                        exportDashboard_escapeCSV(headers[k])], <<",">>)
      line(r) == Join([k \in 1..Len(headers) |->
                         exportDashboard_escapeCSV(StringOrEmpty(rows[r][k]))],
                      <<",">>)
  IN Join(<<header>> \o [r \in 1..Len(rows) |-> line(r)], <<"\n">>)

(***************************************************************************)
(* TableWidget: state machine                                              *)
(***************************************************************************)
filteredData == filteredDataOf(data, columns, columnFilters)

totalPages == totalPagesOf(sortedData, pageSize)

paginatedData == paginatedDataOf(sortedData, page, pageSize)

\* ids of the rendered rows: getRowId(row, rowKey, page * pageSize + rowIdx)
RenderedIds ==
  {getRowId(paginatedData[k], rowKey, page * pageSize + (k - 1)) :
     k \in 1..Len(paginatedData)}

RECURSIVE FilterByIndex(_, _)
\* the elements of seq at the positions in keep, in the order of seq
FilterByIndex(seq, keep) ==
  IF seq = <<>> THEN <<>>
  ELSE LET front == FilterByIndex(SubSeq(seq, 1, Len(seq) - 1), keep)
       IN IF Len(seq) \in keep THEN Append(front, seq[Len(seq)]) ELSE front

\* data.filter((row, i) => selectedIds.has(getRowId(row, rowKey, i)))
selectedRowsOf(d, rk, ids) ==
  FilterByIndex(d, {k \in 1..Len(d) : getRowId(d[k], rk, k - 1) \in ids})

selectedRows == selectedRowsOf(data, rowKey, selectedIds)

\* the rows argument handleExport passes to onExport: selectedRows, or
\* undefined when selectedRows is empty
exportArgOf(rows) ==
  IF Len(rows) > 0 THEN [defined |-> TRUE, rows |-> rows]
  ELSE [defined |-> FALSE, rows |-> <<>>]

\* the column headers rendered with an onClick (col.sortable !== false)
HeaderIds == {columns[k].id : k \in 1..Len(columns)}

\* the columns rendered with a filter input (col.filterable !== false)
FilterInputIds ==
  {columns[k].id : k \in {j \in 1..Len(columns) : columns[j].filterable}}

\* the table variables while another component is exercised
TIdle ==
  /\ data = <<>>
  /\ columns = ColumnDefs(TRUE, TRUE)
  /\ rowKey = "id"
  /\ pageSize = 2
  /\ sort = NoSort
  /\ columnFilters = NoFilters
  /\ page = 0
  /\ selectedIds = {}
  /\ sortedData = <<>>

\* the window variables while another component is exercised
WIdle ==
  /\ rowCount = 0
  /\ estimateSize = 1
  /\ overscan = 0
  /\ containerHeight = 1
  /\ enabled = FALSE
  /\ scrollTop = 0
  /\ loading = FALSE
  /\ listening = FALSE

\* the CSV variables while another component is exercised
CIdle ==
  /\ csvHeaders = <<>>
  /\ csvRows = <<>>
  /\ csvWriter = "none"
  /\ csvOutput = <<>>

\* no cached entry
NoCache == [data |-> 0, filterHash |-> 0, fresh |-> FALSE]

AIdle == accessOutcome = "none"

DIdle ==
  /\ dtData = <<>>
  /\ rowSelection = {}
  /\ dtSelectedRows = <<>>
  /\ batchRows = <<>>

SIdle ==
  /\ sockets = <<>>
  /\ socketRef = 0
  /\ reconnectAttemptsRef = 0
  /\ reconnectTimers = {}
  /\ reconnectTimerRef = 0
  /\ timeoutCount = 0
  /\ heartbeatTimerRef = FALSE
  /\ readyState = "closed"
  /\ disconnected = FALSE

FIdle ==
  /\ currentFilterHash = 1
  /\ fetches = <<>>
  /\ cwData = 0
  /\ cacheRef = NoCache

PIdle ==
  /\ isPolling = FALSE
  /\ documentHidden = FALSE
  /\ timerRef = 0
  /\ intervals = {}
  /\ intervalCount = 0
  /\ timerFetches = 0

\* the hook variables while another component is exercised
HIdle == AIdle /\ DIdle /\ SIdle /\ FIdle /\ PIdle

\* first render with the given props
TInitWith(datasets, columnSets, rowKeys, pageSizes) ==
  /\ data \in datasets
  /\ columns \in columnSets
  /\ rowKey \in rowKeys
  /\ pageSize \in pageSizes
  /\ sort = NoSort
  /\ columnFilters = NoFilters
  /\ page = 0
  /\ selectedIds = {}
  /\ sortedData = filteredDataOf(data, columns, columnFilters)
  /\ WIdle
  /\ CIdle
  /\ HIdle

\* the sortedData memo is recomputed from the new inputs
Rederive ==
  sortedData' \in
    sortedDataOf(filteredDataOf(data', columns', columnFilters'), sort', columns')

NextDirectionNoReset(direction) ==
  IF direction = "asc" THEN "desc" ELSE "asc"

NextDirection(direction) ==
  IF direction = "asc" THEN "desc"
  ELSE IF direction = "desc" THEN "none" ELSE "asc"

\* handleSort(columnId); the onClick of a header calls it with col.id whatever
\* the modifier keys of the click
handleSort(columnId) ==
  /\ sortable
  /\ sort' = IF sort.columnId # columnId
             THEN [columnId |-> columnId, direction |-> "asc"]
             ELSE [columnId |-> columnId,
                   direction |-> NextDirection(sort.direction)]
  /\ UNCHANGED <<data, columns, rowKey, pageSize, columnFilters, page,
                 selectedIds>>
  /\ Rederive
  /\ UNCHANGED <<wvars, cvars, hvars>>

handleFilterKeepsPage(columnId, value) ==
  /\ filterable
  /\ value # columnFilters[columnId]
  /\ columnFilters' = [columnFilters EXCEPT ![columnId] = value]
  /\ UNCHANGED <<data, columns, rowKey, pageSize, sort, page, selectedIds>>
  /\ Rederive
  /\ UNCHANGED <<wvars, cvars, hvars>>

handleFilterClearsSelection(columnId, value) ==
  /\ filterable
  /\ value # columnFilters[columnId]
  /\ columnFilters' = [columnFilters EXCEPT ![columnId] = value]
  /\ page' = 0
  /\ selectedIds' = {}
  /\ UNCHANGED <<data, columns, rowKey, pageSize, sort>>
  /\ Rederive
  /\ UNCHANGED <<wvars, cvars, hvars>>

\* handleFilter(columnId, value), from the onChange of a filter input (the
\* value differs from the stored text)
handleFilter(columnId, value) ==
  /\ filterable
  /\ value # columnFilters[columnId]
  /\ columnFilters' = [columnFilters EXCEPT ![columnId] = value]
  /\ page' = 0
  /\ UNCHANGED <<data, columns, rowKey, pageSize, sort, selectedIds>>
  /\ Rederive
  /\ UNCHANGED <<wvars, cvars, hvars>>

\* setPage from the pagination buttons (first, previous, number, next, last)
setPage(n) ==
  /\ pageSize > 0
  /\ totalPages > 1
  /\ \/ n \in 0..(totalPages - 1)
     \/ page # 0 /\ n = page - 1
  /\ n # page
  /\ page' = n
  /\ UNCHANGED <<data, columns, rowKey, pageSize, sort, columnFilters,
                 selectedIds, sortedData>>
  /\ UNCHANGED <<wvars, cvars, hvars>>

\* toggleSelect(id), from the checkbox of a rendered row
toggleSelect(id) ==
  /\ selectable
  /\ id \in RenderedIds
  /\ selectedIds' = IF id \in selectedIds THEN selectedIds \ {id}
                    ELSE selectedIds \cup {id}
  /\ UNCHANGED <<data, columns, rowKey, pageSize, sort, columnFilters, page,
                 sortedData>>
  /\ UNCHANGED <<wvars, cvars, hvars>>

\* toggleSelectAll, from the header checkbox
toggleSelectAll ==
  /\ selectable
  /\ selectedIds' =
       IF Cardinality(selectedIds) = Len(paginatedData) THEN {}
       ELSE {getRowId(paginatedData[k], rowKey, k - 1) :
               k \in 1..Len(paginatedData)}
  /\ UNCHANGED <<data, columns, rowKey, pageSize, sort, columnFilters, page,
                 sortedData>>
  /\ UNCHANGED <<wvars, cvars, hvars>>

\* the parent renders the table with another data prop
setData(d) ==
  /\ d # data
  /\ data' = d
  /\ UNCHANGED <<columns, rowKey, pageSize, sort, columnFilters, page,
                 selectedIds>>
  /\ Rederive
  /\ UNCHANGED <<wvars, cvars, hvars>>

\* the parent renders the table with another columns prop
setColumns(cols) ==
  /\ cols # columns
  /\ columns' = cols
  /\ UNCHANGED <<data, rowKey, pageSize, sort, columnFilters, page,
                 selectedIds>>
  /\ Rederive
  /\ UNCHANGED <<wvars, cvars, hvars>>

\* the parent renders the table with another pageSize prop
setPageSize(ps) ==
  /\ ps # pageSize
  /\ pageSize' = ps
  /\ UNCHANGED <<data, columns, rowKey, sort, columnFilters, page,
                 selectedIds, sortedData>>
  /\ UNCHANGED <<wvars, cvars, hvars>>

(***************************************************************************)
(* Specifications                                                          *)
(***************************************************************************)
MaxRows == 3
MaxTextLen == 1
MaxFilterTextLen == 2
MaxFilterRows == 2
MaxPageSize == 2

Cell3 == <<Num(3), Str(<<"A", "b">>)>>

Cell12 == <<Num(12), Str(<<"a">>)>>

Cell2 == <<Num(2), Str(<<"b", "2">>)>>

CellNull == <<Null, Str(<<"B">>)>>

\* datasets of the full state machine: distinct values; a null and a tie
CellUndefined == <<Undefined, Null>>

DataSets ==
  { MakeData(<<Cell3, Cell12, Cell2>>),
    MakeData(<<CellNull, Cell3, Cell3>>),
    MakeData(<<CellUndefined, Cell2>>) }

ColumnSets == {ColumnDefs(TRUE, fname) : fname \in BOOLEAN}

TextAlphabet == {"B", "2"}

\* every filter text of at most n characters
AllTexts(n) ==
  UNION {[1..len -> TextAlphabet] : len \in 0..n}

AllRowIds == Range(Ids) \cup {NumToString(k) : k \in 0..(Len(Ids) - 1)}

Init == TInitWith(DataSets, ColumnSets, {"id", "none"}, 1..MaxPageSize)

Next ==
  \/ \E c \in HeaderIds : handleSort(c)
  \/ \E c \in FilterInputIds, t \in AllTexts(MaxTextLen) : handleFilter(c, t)
  \/ \E n \in 0..Len(Ids) : setPage(n)
  \/ \E id \in AllRowIds : toggleSelect(id)
  \/ toggleSelectAll
  \/ \E d \in DataSets : setData(d)
  \/ \E cols \in ColumnSets : setColumns(cols)
  \/ \E ps \in 1..MaxPageSize : setPageSize(ps)

Spec == Init /\ [][Next]_vars

\* sorting as a function of the dataset: every dataset of at most MaxRows rows,
\* shown unpaginated, sorted by each column in each direction
InitSort == TInitWith(AllData(MaxRows), {ColumnDefs(TRUE, TRUE)}, {"id"}, {0})

NextSort == \E c \in HeaderIds : handleSort(c)

SpecSort == InitSort /\ [][NextSort]_vars

\* filtering as a function of the dataset, the filter texts and the columns
InitFilter == TInitWith(AllData(MaxFilterRows), ColumnSets, {"id"}, {0})

NextFilter ==
  \/ \E c \in FilterInputIds, t \in AllTexts(MaxFilterTextLen) :
       handleFilter(c, t)
  \/ \E cols \in ColumnSets : setColumns(cols)

SpecFilter == InitFilter /\ [][NextFilter]_vars

\* the handlers as functions of a columnId string: every column of the model
\* and one id that no column has
InitHandlers == TInitWith(DataSets, {ColumnDefs(TRUE, TRUE)}, {"id"}, {1})

NextHandlers ==
  \/ \E c \in FilterKeys : handleSort(c)
  \/ \E c \in FilterKeys, t \in AllTexts(MaxTextLen) : handleFilter(c, t)
  \/ \E n \in 0..Len(Ids) : setPage(n)
  \/ \E id \in AllRowIds : toggleSelect(id)

SpecHandlers == InitHandlers /\ [][NextHandlers]_vars

WInit ==
  /\ rowCount \in 0..MaxCount
  /\ estimateSize \in 1..MaxExtent
  /\ overscan \in 0..MaxOverscan
  /\ containerHeight \in 1..MaxViewport
  /\ enabled \in BOOLEAN
  /\ loading \in BOOLEAN
  /\ scrollTop = 0
  \* mount effect: if (!container || !enabled) return; addEventListener
  /\ listening = (~loading /\ enabled)
  /\ TIdle
  /\ CIdle
  /\ HIdle

\* a scroll event delivered to the listener: setScrollTop(container.scrollTop)
handleScroll(s) ==
  /\ listening
  /\ ~loading
  /\ s \in 0..maxScrollTop
  /\ scrollTop' = s
  /\ UNCHANGED <<rowCount, estimateSize, overscan, containerHeight, enabled,
                 loading, listening>>
  /\ UNCHANGED <<tvars, cvars, hvars>>

\* the row model changes (filter or data change): count changes, scrollTop stays
RowsChanged(n) ==
  /\ n \in 0..MaxCount
  /\ n # rowCount
  /\ rowCount' = n
  /\ UNCHANGED <<estimateSize, overscan, containerHeight, enabled, scrollTop,
                 loading, listening>>
  /\ UNCHANGED <<tvars, cvars, hvars>>

\* the loading/error early return of DataTable is entered or left: the scroll
\* container is unmounted or a new one is mounted; the listener effect has
\* deps [handleScroll, enabled] and does not run again
SetLoading(b) ==
  /\ b \in BOOLEAN
  /\ b # loading
  /\ loading' = b
  /\ listening' = FALSE
  /\ UNCHANGED <<rowCount, estimateSize, overscan, containerHeight, enabled,
                 scrollTop>>
  /\ UNCHANGED <<tvars, cvars, hvars>>

\* enableVirtualScrolling changes: the listener effect is cleaned up and re-run
SetEnabled(b) ==
  /\ b \in BOOLEAN
  /\ b # enabled
  /\ enabled' = b
  /\ listening' = (~loading /\ b)
  /\ UNCHANGED <<rowCount, estimateSize, overscan, containerHeight, scrollTop,
                 loading>>
  /\ UNCHANGED <<tvars, cvars, hvars>>

WNext ==
  \/ \E s \in 0..(MaxCount * MaxExtent) : handleScroll(s)
  \/ \E n \in 0..MaxCount : RowsChanged(n)
  \/ \E b \in BOOLEAN : SetLoading(b)
  \/ \E b \in BOOLEAN : SetEnabled(b)

SpecWindow == WInit /\ [][WNext]_vars

(***************************************************************************)
(* CSV export: state machine                                               *)
(***************************************************************************)
MaxFieldLen == 1
MaxCsvRows == 1

CsvAlphabet == {"a", ",", "\"", "\n", "\r"}

\* every text of at most n characters
CsvTexts(n) == UNION {[1..len -> CsvAlphabet] : len \in 0..n}

\* one or two distinct header texts (object keys); the first may need quoting
CsvHeaderSets ==
  {<<<<"h">> \o t, <<"n">>>> : t \in CsvTexts(1) \ {<<"a">>}}
    \cup {<<<<"h">> \o t>> : t \in CsvTexts(1) \ {<<"a">>}}

\* rows of two cells: any value, then a number or null
CsvRowPool ==
  {<<c, d>> :
     c \in {Str(t) : t \in CsvTexts(MaxFieldLen)} \cup {Num(12), Null, Undefined},
     d \in {Num(3), Null}}

CsvRowSets == UNION {[1..n -> CsvRowPool] : n \in 0..MaxCsvRows}

InitCSV ==
  /\ csvHeaders \in CsvHeaderSets
  /\ csvRows \in CsvRowSets
  /\ csvWriter = "none"
  /\ csvOutput = <<>>
  /\ TIdle
  /\ WIdle
  /\ HIdle

\* the table export: csv = generateCSV(options)
callGenerateCSV ==
  /\ csvWriter' = "generateCSV"
  /\ csvOutput' = generateCSV(csvHeaders, csvRows)
  /\ UNCHANGED <<csvHeaders, csvRows>>
  /\ UNCHANGED <<wvars, tvars, hvars>>

\* the dashboard export: exportToCSV(data) returns early for an empty data,
\* else builds csvContent and hands it to the download
callExportToCSV ==
  /\ Len(csvRows) # 0
  /\ csvWriter' = "exportToCSV"
  /\ csvOutput' = exportToCSV_csvContent(csvHeaders, csvRows)
  /\ UNCHANGED <<csvHeaders, csvRows>>
  /\ UNCHANGED <<wvars, tvars, hvars>>

NextCSV ==
  \/ callGenerateCSV
  \/ callExportToCSV

SpecCSV == InitCSV /\ [][NextCSV]_vars

(***************************************************************************)
(* Claims on the virtual window (checked under SpecWindow)                 *)
(***************************************************************************)
\* row i occupies the pixel span [i*est, (i+1)*est); it intersects the
\* viewport [st, st+ch]
RowIntersectsViewport(i, st, est, ch) ==
  /\ i * est <= st + ch
  /\ (i + 1) * est > st

\* C1: virtual window soundness. With virtual scrolling on, count > 0 and
\* 0 <= scrollTop <= count*estimateSize - containerHeight, every row index in
\* [0, count-1] whose pixel span intersects [scrollTop, scrollTop+containerHeight]
\* is in the computed window, and the window computed with the configured
\* overscan contains the window computed with overscan 0.
C1_WindowSoundness ==
  (enabled /\ count > 0 /\ scrollTop >= 0
     /\ scrollTop <= count * estimateSize - containerHeight) =>
    /\ \A i \in 0..(count - 1) :
         RowIntersectsViewport(i, scrollTop, estimateSize, containerHeight)
           => i \in Indices(virtualRows)
    /\ Indices(virtualRowsOf(count, estimateSize, 0, containerHeight,
                             scrollTop, enabled))
         \subseteq Indices(virtualRows)

\* C1 witness: a scrolled window with overscan that leaves rows out at both ends
C1_Witness ==
  /\ enabled /\ count > 0 /\ overscan > 0
  /\ scrollTop > 0
  /\ scrollTop <= count * estimateSize - containerHeight
  /\ startIndexOf(scrollTop, estimateSize, overscan) > 0
  /\ endIndexOf(count, scrollTop, estimateSize, containerHeight, overscan)
       < count - 1
  /\ virtualRows # <<>>

\* the end index as the specification's formula states it
endIndexFromRawStart(c, st, est, ch, ov) ==
  MathMin(c - 1, MathFloorDiv(st, est) + visibleCountOf(ch, est) + ov)

\* C2: for every input with count > 0 the window is exactly
\* startIndex = max(0, rawStart - overscan) and
\* endIndex = min(count - 1, rawStart + visibleCount + overscan);
\* computeWindow(1000, 40, 600, 2000, 5) gives 45 and 70.
C2_ExactWindow ==
  /\ startIndexOf(2000, 40, 5) = 45
  /\ endIndexOf(1000, 2000, 40, 600, 5) = 70
  /\ (enabled /\ count > 0) =>
       /\ startIndexOf(scrollTop, estimateSize, overscan)
            = MathMax(0, MathFloorDiv(scrollTop, estimateSize) - overscan)
       /\ endIndexOf(count, scrollTop, estimateSize, containerHeight, overscan)
            = endIndexFromRawStart(count, scrollTop, estimateSize,
                                   containerHeight, overscan)

\* C3: every materialized row index i satisfies 0 <= i <= count-1, and with
\* count = 0 or virtual scrolling disabled the window is empty.
C3_IndicesInRange ==
  /\ \A i \in Indices(virtualRows) : 0 <= i /\ i <= count - 1
  /\ (rowCount = 0 \/ ~enabled) => virtualRows = <<>>

\* C3 witness: a non-empty window on which both clamps are active
C3_Witness ==
  /\ enabled /\ count > 0
  /\ scrollTop > 0
  /\ virtualRows # <<>>
  /\ MathFloorDiv(scrollTop, estimateSize) - overscan < 0
  /\ startIndexOf(scrollTop, estimateSize, overscan)
       + visibleCountOf(containerHeight, estimateSize) + overscan * 2 > count - 1

(***************************************************************************)
(* Claims on TableWidget sorting (checked under SpecSort)                  *)
(***************************************************************************)
SortIsActive ==
  /\ sort.direction # "none"
  /\ sort.columnId # ""
  /\ FindColumn(columns, sort.columnId) # <<>>

SortAccessor == FindColumn(columns, sort.columnId)[1].accessor

\* position of a row in a sequence of rows with distinct ids
PositionOf(seq, row) == CHOOSE k \in 1..Len(seq) : seq[k].id = row.id

IsNullish(v) == v.t \in {"null", "undef"}

\* C4: sort stability. With an active sort, any two rows that compare equal
\* on the sort key appear in sortedData in the same relative order as in the
\* input (filteredData); with no column or no direction the output order is
\* the input order.
C4_SortStability ==
  IF SortIsActive
  THEN \A i, j \in 1..Len(sortedData) :
         (i < j /\ compareRows(sortedData[i], sortedData[j],
                               SortAccessor, sort.direction) = 0)
           => PositionOf(filteredData, sortedData[i])
                < PositionOf(filteredData, sortedData[j])
  ELSE sortedData = filteredData

\* C5: null-last is direction-invariant. With an active sort in either
\* direction, no row whose value is null or undefined precedes a row with a
\* non-null value, and the non-null rows are in ascending order for asc and
\* in descending order for desc.
C5_NullLast ==
  SortIsActive =>
    \A i, j \in 1..Len(sortedData) :
      i < j =>
        LET vi == getCellValue(sortedData[i], SortAccessor)
            vj == getCellValue(sortedData[j], SortAccessor)
        IN /\ ~(IsNullish(vi) /\ ~IsNullish(vj))
           /\ (~IsNullish(vi) /\ ~IsNullish(vj)) =>
                IF sort.direction = "asc" THEN ~LessThan(vj, vi)
                ELSE ~LessThan(vi, vj)

(***************************************************************************)
(* Claims on filtering (checked under SpecFilter)                          *)
(***************************************************************************)
\* hay contains needle: needle occurs at some offset of hay
OccursIn(needle, hay) ==
  \E off \in 0..Len(hay) :
    /\ off + Len(needle) <= Len(hay)
    /\ \A m \in 1..Len(needle) : hay[off + m] = needle[m]

\* the lower-cased stringified cell of a row, null/undefined as ''
LoweredCell(row, col) ==
  LET value == row[col.accessor]
  IN IF IsNullish(value) THEN <<>>
     ELSE [k \in 1..Len(ToStringJS(value)) |-> LowerChar(ToStringJS(value)[k])]

LoweredText(text) == [k \in 1..Len(text) |-> LowerChar(text[k])]

\* the filter rule as stated: every column with a non-empty text contains it,
\* and the global text is empty or some column contains it
FilterRule(row, cols, cf, g) ==
  /\ \A k \in 1..Len(cols) :
       cf[cols[k].id] # <<>> =>
         OccursIn(LoweredText(cf[cols[k].id]), LoweredCell(row, cols[k]))
  /\ \/ g = <<>>
     \/ \E k \in 1..Len(cols) : OccursIn(LoweredText(g), LoweredCell(row, cols[k]))

\* C6: filter rule. A row is in the view iff every column with a non-empty
\* filter text has a lower-cased stringified cell containing the lower-cased
\* text, and the global text is empty or some column's lower-cased stringified
\* cell contains it; a null/undefined cell matches no non-empty text.
C6_FilterRule ==
  \A k \in 1..Len(data) :
    /\ \A g \in AllTexts(MaxFilterTextLen) :
         ( /\ data[k] \in Range(filteredData)
           /\ globalFilterFn(data[k], columns, g) )
           <=> FilterRule(data[k], columns, columnFilters, g)
    /\ \A c \in 1..Len(columns) :
         ( /\ IsNullish(getCellValue(data[k], columns[c].accessor))
           /\ columnFilters[columns[c].id] # <<>> )
           => data[k] \notin Range(filteredData)
    /\ \A g \in AllTexts(MaxFilterTextLen) \ {<<>>} :
         (\A c \in 1..Len(columns) :
            IsNullish(getCellValue(data[k], columns[c].accessor)))
           => ~globalFilterFn(data[k], columns, g)

\* C6 witness: an upper-case text on the name column keeps a row whose name
\* holds the letter in lower case and drops a row whose name is null
C6_Witness ==
  /\ columnFilters["name"] = <<"B">>
  /\ \E k \in 1..Len(filteredData) : filteredData[k].name = Str(<<"b", "2">>)
  /\ \E k \in 1..Len(data) : data[k].name = Null
  /\ Len(filteredData) < Len(data)

\* C7: a column declared not filterable never filters. In every state in which
\* a filter text is stored for a column with filterable = false, the view is
\* the same as with no text stored for that column.
C7_NotFilterableIgnored ==
  \A k \in 1..Len(columns) :
    (~columns[k].filterable /\ columnFilters[columns[k].id] # <<>>) =>
      filteredData =
        filteredDataOf(data, columns,
                       [columnFilters EXCEPT ![columns[k].id] = <<>>])

\* number of rows of the filtered view that pass the global filter
GlobalCount(g) ==
  LET keep(row) == globalFilterFn(row, columns, g)
  IN Len(SelectSeq(filteredData, keep))

\* C8: filter monotonicity. For every slot holding a non-empty text the
\* filtered count is at most the filtered count of the same state with that
\* slot empty; the same holds for a global text; the filtered count never
\* exceeds the total count.
C8_FilterMonotone ==
  /\ \A c \in ColumnIds :
       columnFilters[c] # <<>> =>
         Len(filteredData)
           <= Len(filteredDataOf(data, columns,
                                 [columnFilters EXCEPT ![c] = <<>>]))
  /\ \A g \in AllTexts(MaxFilterTextLen) :
       GlobalCount(g) <= GlobalCount(<<>>)
  /\ GlobalCount(<<>>) = Len(filteredData)
  /\ Len(filteredData) <= Len(data)

\* C8 witness: both columns hold a text and the second text removed rows that
\* the first one kept
C8_Witness ==
  /\ columnFilters["v"] # <<>>
  /\ columnFilters["name"] # <<>>
  /\ Len(filteredData) > 0
  /\ Len(filteredData)
       < Len(filteredDataOf(data, columns,
                            [columnFilters EXCEPT !["name"] = <<>>]))

(***************************************************************************)
(* Claims on pagination and selection (checked under Spec)                 *)
(***************************************************************************)
RECURSIVE ConcatPages(_, _, _)
\* the slices of pages 0 .. n-1, concatenated in order
ConcatPages(sd, ps, n) ==
  IF n = 0 THEN <<>>
  ELSE ConcatPages(sd, ps, n - 1) \o paginatedDataOf(sd, n - 1, ps)

\* C9: pagination coverage. For pageSize > 0, concatenating the slices of
\* pages 0 .. ceil(filteredCount/pageSize)-1 yields exactly the filtered and
\* sorted sequence; with pageSize 2 and three rows, page 1 is the third row.
C9_PaginationCoverage ==
  /\ paginatedDataOf(<<"a", "b", "c">>, 1, 2) = <<"c">>
  /\ pageSize > 0 =>
       ConcatPages(sortedData, pageSize, totalPagesOf(sortedData, pageSize))
         = sortedData

\* C9 witness: the second page of a view whose last page is partial is shown
C9_Witness ==
  /\ pageSize = 2
  /\ Len(sortedData) = 3
  /\ page = 1
  /\ Len(paginatedData) = 1
  /\ sort.direction # "none"

\* C10: selection persistence. The set of selected ids is changed only by
\* toggleSelect and toggleSelectAll (select-all / clear); every other
\* operation leaves it unchanged.
C10_SelectionFrame ==
  [][selectedIds' # selectedIds =>
       \/ \E id \in AllRowIds : toggleSelect(id)
       \/ toggleSelectAll]_vars

\* C10 witness: a selected row that a filter set afterwards removed from the
\* view is still selected
C10_Witness ==
  /\ rowKey = "id"
  /\ columnFilters # NoFilters
  /\ \E k \in 1..Len(data) :
       /\ data[k].id \in selectedIds
       /\ data[k] \notin Range(filteredData)

(***************************************************************************)
(* Claims on selection identity and page resets (checked under Spec)       *)
(***************************************************************************)
\* the row objects reported as selected
SelectedRowSet == Range(selectedRows)

\* the rows of the current page whose checkbox is rendered checked
CheckedInView ==
  {paginatedData[k] :
     k \in {j \in 1..Len(paginatedData) :
             getRowId(paginatedData[j], rowKey, page * pageSize + (j - 1))
               \in selectedIds}}

\* the row whose checkbox is rendered with the given id
RenderedRow(id) ==
  paginatedData[CHOOSE k \in 1..Len(paginatedData) :
                  getRowId(paginatedData[k], rowKey, page * pageSize + (k - 1))
                    = id]

SymDiff(A, B) == (A \ B) \cup (B \ A)

\* C11: selection is keyed by row identity. Toggling the checkbox of a row
\* flips exactly that row in the rows reported as selected, sort, filter and
\* page operations leave the reported rows unchanged, and after each of these
\* the checked rows of the view are the reported rows that are on the page;
\* so the reported rows are the rows toggled an odd number of times, with or
\* without a row-key accessor.
C11_SelectionByIdentity ==
  [][/\ \A id \in AllRowIds :
          toggleSelect(id) =>
            /\ SelectedRowSet' = SymDiff(SelectedRowSet, {RenderedRow(id)})
            /\ CheckedInView' = SelectedRowSet' \cap Range(paginatedData')
     /\ (\/ \E c \in HeaderIds : handleSort(c)
         \/ \E c \in FilterInputIds, t \in AllTexts(MaxTextLen) :
              handleFilter(c, t)
         \/ \E n \in 0..Len(Ids) : setPage(n)) =>
          /\ SelectedRowSet' = SelectedRowSet
          /\ CheckedInView' = SelectedRowSet' \cap Range(paginatedData')]_vars

C13_SetDataResetsPage ==
  [][\A d \in DataSets : setData(d) => page' = 0]_vars

\* C14: setPageSize resets the page. After the page size is changed to a
\* positive value, whatever the page was, the stored page is 0.
C14_SetPageSizeResetsPage ==
  [][\A ps \in 1..MaxPageSize : setPageSize(ps) => page' = 0]_vars

\* the sort state as a sort spec: no key, or one key with its direction
SortSpecOf(srt) ==
  IF srt.direction = "none" THEN <<>>
  ELSE <<[columnId |-> srt.columnId, direction |-> srt.direction]>>

SortKey(c, direction) == <<[columnId |-> c, direction |-> direction]>>

\* C15: single-key sort cycle. handleSort(c) replaces the sort spec by
\* [(c, asc)] when c is not the current key, by [(c, desc)] when the spec is
\* [(c, asc)], and by the empty spec when it is [(c, desc)]; with the empty
\* spec the view is the filtered input in input order.
C15_SortCycle ==
  [][\A c \in HeaderIds :
       handleSort(c) =>
         /\ SortSpecOf(sort') =
              IF SortSpecOf(sort) = SortKey(c, "asc") THEN SortKey(c, "desc")
              ELSE IF SortSpecOf(sort) = SortKey(c, "desc") THEN <<>>
              ELSE SortKey(c, "asc")
         /\ SortSpecOf(sort') = <<>> => sortedData' = filteredData']_vars

\* C15 witness: the third click on the header of v: the sort is off again and
\* the filtered rows, which sorted by v would be in another order, are shown
\* in input order
C15_Witness ==
  /\ sort = [columnId |-> "v", direction |-> "none"]
  /\ columnFilters # NoFilters
  /\ Len(filteredData) >= 2
  /\ sortedData = filteredData
  /\ StableSort(filteredData, "v", "asc") # filteredData

\* C18: out-of-range page. Whenever page * pageSize >= filteredCount the page
\* slice is empty, and the stored page is changed only by setPage,
\* setPageSize, handleFilter and setData, never by deriving the view.
C18_OutOfRangePage ==
  /\ []((pageSize > 0 /\ page * pageSize >= Len(filteredData)) =>
          paginatedData = <<>>)
  /\ [][page' # page =>
          \/ \E n \in 0..Len(Ids) : setPage(n)
          \/ \E c \in FilterKeys, t \in AllTexts(MaxTextLen) :
               handleFilter(c, t)
          \/ \E ps \in 1..MaxPageSize : setPageSize(ps)
          \/ \E d \in DataSets : setData(d)]_vars

\* C18 witness: the stored page lies beyond the last page of a non-empty
\* dataset and the page slice is empty
C18_Witness ==
  /\ pageSize > 0
  /\ page > 0
  /\ Len(data) > 0
  /\ page * pageSize >= Len(filteredData)
  /\ paginatedData = <<>>

\* C16: multi-key sort. A sort on column c with the other keys kept (the
\* shift-click) leaves every other key of the sort spec in place with its
\* direction and relative priority, and no columnId occurs twice in the spec.
C16_MultiSortFrame ==
  [][\A c \in HeaderIds :
       handleSort(c) =>
         LET before == SortSpecOf(sort)
             after == SortSpecOf(sort')
             others == SelectSeq(before, LAMBDA k : k.columnId # c)
         IN /\ SelectSeq(after, LAMBDA k : k.columnId # c) = others
            /\ \A i, j \in 1..Len(after) :
                 i # j => after[i].columnId # after[j].columnId]_vars

SelectedInView == SelectSeq(sortedData, LAMBDA row : row.id \in selectedIds)

\* C19: export scope and order, for a table with a row key. With at least one
\* id selected the rows handed to the export are the selected rows of the
\* current filtered view in the view's sorted order; with nothing selected,
\* rows handed to the export are all rows of the view in sorted order.
C19_ExportScope ==
  rowKey = "id" =>
    LET arg == exportArgOf(selectedRows)
    IN IF selectedIds # {}
       THEN arg.defined /\ arg.rows = SelectedInView
       ELSE arg.defined => arg.rows = sortedData

(***************************************************************************)
(* Claims on the CSV text (checked under SpecCSV)                          *)
(***************************************************************************)
\* the text of a value: empty for null and undefined
CsvText(value) == StringOrEmpty(value)

NeedsQuoting(text) ==
  \E k \in 1..Len(text) : text[k] \in {",", "\"", "\n", "\r"}

RECURSIVE DoubledQuotes(_)
DoubledQuotes(text) ==
  IF text = <<>> THEN <<>>
  ELSE (IF Head(text) = "\"" THEN <<"\"", "\"">> ELSE <<Head(text)>>)
         \o DoubledQuotes(Tail(text))

QuotedField(text) ==
  IF NeedsQuoting(text) THEN <<"\"">> \o DoubledQuotes(text) \o <<"\"">>
  ELSE text

RECURSIVE Separated(_, _)
Separated(parts, sep) ==
  IF parts = <<>> THEN <<>>
  ELSE IF Tail(parts) = <<>> THEN Head(parts)
  ELSE Head(parts) \o sep \o Separated(Tail(parts), sep)

\* C20: CSV escaping. Every header and cell is written in double quotes with
\* its double quotes doubled if and only if it contains a comma, a double
\* quote, LF or CR, and unchanged otherwise; the fields of a row are joined by
\* commas and the rows by CRLF.
C20_CsvEscaping ==
  csvWriter # "none" =>
    csvOutput =
      Separated(
        <<Separated([k \in 1..Len(csvHeaders) |-> QuotedField(csvHeaders[k])],
                    <<",">>)>>
          \o [r \in 1..Len(csvRows) |->
                Separated([k \in 1..Len(csvHeaders) |->
                             QuotedField(CsvText(csvRows[r][k]))], <<",">>)],
        <<"\r", "\n">>)

RECURSIVE ParseFrom(_, _, _, _, _, _)
\* reading text from position i: comma ends a field, CRLF ends a row, a double
\* quote opens a quoted field, in which a doubled quote is one quote and a
\* single quote closes the field
ParseFrom(text, i, inQuotes, field, row, rows) ==
  IF i > Len(text) THEN Append(rows, Append(row, field))
  ELSE LET ch == text[i]
           more == i < Len(text)
       IN IF inQuotes
          THEN IF ch = "\"" /\ more /\ text[i + 1] = "\""
               THEN ParseFrom(text, i + 2, TRUE, Append(field, "\""), row, rows)
               ELSE IF ch = "\""
               THEN ParseFrom(text, i + 1, FALSE, field, row, rows)
               ELSE ParseFrom(text, i + 1, TRUE, Append(field, ch), row, rows)
          ELSE IF ch = "\"" /\ field = <<>>
               THEN ParseFrom(text, i + 1, TRUE, field, row, rows)
               ELSE IF ch = ","
               THEN ParseFrom(text, i + 1, FALSE, <<>>, Append(row, field), rows)
               ELSE IF ch = "\r" /\ more /\ text[i + 1] = "\n"
               THEN ParseFrom(text, i + 2, FALSE, <<>>, <<>>,
                              Append(rows, Append(row, field)))
               ELSE ParseFrom(text, i + 1, FALSE, Append(field, ch), row, rows)

ParseCSV(text) == ParseFrom(text, 1, FALSE, <<>>, <<>>, <<>>)

\* the grid that was serialized: the header texts, then the text of the cell
\* of every row under every header
CsvGrid ==
  <<csvHeaders>>
    \o [r \in 1..Len(csvRows) |->
          [k \in 1..Len(csvHeaders) |-> CsvText(csvRows[r][k])]]

C22_SelectAllScoped ==
  [][toggleSelectAll => (selectedIds' \ selectedIds) \subseteq RenderedIds]_vars

\* C27: select-all toggle of a table with a row key. When at least one row of
\* the current page is not selected, toggleSelectAll leaves every row of the
\* current page selected, whatever rows of other pages are selected.
C27_SelectAllSelectsPage ==
  [][(/\ rowKey = "id"
      /\ toggleSelectAll
      /\ \E k \in 1..Len(paginatedData) : paginatedData[k].id \notin selectedIds)
       => \A k \in 1..Len(paginatedData) : paginatedData[k].id \in selectedIds']_vars

(***************************************************************************)
(* Claims on the scroll listener and the stale offset (under SpecWindow)   *)
(***************************************************************************)
\* C25: the window follows every scroll. Whenever virtual scrolling is enabled
\* and the scroll container is mounted, the scroll listener is attached to it,
\* so that a scroll event updates the stored offset; also when the container
\* was mounted after a first render in the loading or error state.
C25_WindowFollowsScroll ==
  (enabled /\ ~loading) => listening

\* C26: in virtual mode the window is never empty while rows exist. With
\* virtual scrolling enabled and count > 0 at least one row is materialized,
\* also right after count shrank under an offset taken for the larger count.
C26_WindowNeverEmpty ==
  (enabled /\ count > 0) => Len(virtualRows) > 0

(***************************************************************************)
(* TableWidget and generateCSV with a function accessor that throws        *)
(***************************************************************************)
MaxAccessRows == 2

\* a column model where the "v" column has a function accessor: it returns
\* row.v and throws for the rows whose id is in throwsOn
FnColumnDefs(throwsOn) ==
  << [id |-> "v", header |-> <<"V">>, accessor |-> "v", filterable |-> TRUE,
      throwsOn |-> throwsOn],
     [id |-> "name", header |-> <<"N">>, accessor |-> "name",
      filterable |-> TRUE, throwsOn |-> {}] >>

\* getCellValue(row, accessor) returns accessor(row) with no try/catch: the
\* call raises when the accessor does
getCellValueThrows(row, col) == row.id \in col.throwsOn

\* columns.every(...) for one row raises at the first column with a filter
\* text whose accessor throws, unless an earlier column already returned false
rowFilterThrows(row, cols, cf) ==
  \E k \in 1..Len(cols) :
    /\ cf[cols[k].id] # <<>>
    /\ getCellValueThrows(row, cols[k])
    /\ \A j \in 1..(k - 1) :
         \/ cf[cols[j].id] = <<>>
         \/ /\ ~getCellValueThrows(row, cols[j])
            /\ passesColumn(row, cols[j], cf)

\* the filteredData memo raises when the callback raises for some row
filteredDataThrows(d, cols, cf) ==
  /\ filterable
  /\ \E i \in 1..Len(d) : rowFilterThrows(d[i], cols, cf)

\* the sortedData memo raises when the comparator reads a throwing row: with
\* two rows or more the sort compares every row at least once
sortedDataThrows(fd, srt, cols) ==
  /\ srt.direction # "none"
  /\ srt.columnId # ""
  /\ LET col == FindColumn(cols, srt.columnId)
     IN /\ col # <<>>
        /\ Len(fd) >= 2
        /\ \E i \in 1..Len(fd) : getCellValueThrows(fd[i], col[1])

\* rendering with the given inputs raises out of a memo
viewThrows(d, cols, cf, srt) ==
  \/ filteredDataThrows(d, cols, cf)
  \/ sortedDataThrows(filteredDataOf(d, cols, cf), srt, cols)

\* generateCSV reads every cell of every row
generateCSVThrows(d, cols) ==
  \E i \in 1..Len(d), k \in 1..Len(cols) : getCellValueThrows(d[i], cols[k])

\* the render after a state change: the memos are recomputed, or the render
\* raises and nothing is shown
RederiveOrRaise ==
  IF viewThrows(data', columns', columnFilters', sort')
  THEN /\ accessOutcome' = "viewRaised"
       /\ UNCHANGED sortedData
  ELSE /\ accessOutcome' = "viewDone"
       /\ Rederive

InitAccess ==
  /\ data \in AllData(MaxAccessRows)
  /\ columns \in {FnColumnDefs(t) : t \in SUBSET {Ids[k] : k \in 1..MaxAccessRows}}
  /\ rowKey = "id"
  /\ pageSize = 0
  /\ sort = NoSort
  /\ columnFilters = NoFilters
  /\ page = 0
  /\ selectedIds = {}
  \* first render: no filter text and no sort, no accessor is called
  /\ sortedData = data
  /\ accessOutcome = "none"
  /\ WIdle /\ CIdle /\ DIdle /\ SIdle /\ FIdle /\ PIdle

\* handleSort(columnId) and the render that follows
accessSort(columnId) ==
  /\ accessOutcome # "viewRaised"
  /\ sortable
  /\ sort' = IF sort.columnId # columnId
             THEN [columnId |-> columnId, direction |-> "asc"]
             ELSE [columnId |-> columnId,
                   direction |-> NextDirection(sort.direction)]
  /\ UNCHANGED <<data, columns, rowKey, pageSize, columnFilters, page,
                 selectedIds>>
  /\ RederiveOrRaise
  /\ UNCHANGED <<wvars, cvars, dvars, svars, fvars, pvars>>

\* handleFilter(columnId, value) and the render that follows
accessFilter(columnId, value) ==
  /\ accessOutcome # "viewRaised"
  /\ filterable
  /\ value # columnFilters[columnId]
  /\ columnFilters' = [columnFilters EXCEPT ![columnId] = value]
  /\ page' = 0
  /\ UNCHANGED <<data, columns, rowKey, pageSize, sort, selectedIds>>
  /\ RederiveOrRaise
  /\ UNCHANGED <<wvars, cvars, dvars, svars, fvars, pvars>>

\* downloadCSV({columns, data}) with the rows and the columns of the table
accessExport ==
  /\ accessOutcome # "viewRaised"
  /\ IF generateCSVThrows(data, columns)
     THEN /\ accessOutcome' = "exportRaised"
          /\ UNCHANGED cvars
     ELSE /\ accessOutcome' = "exportDone"
          /\ csvHeaders' = [k \in 1..Len(columns) |-> columns[k].header]
          /\ csvRows' = [i \in 1..Len(data) |->
                           [k \in 1..Len(columns) |->
                              getCellValue(data[i], columns[k].accessor)]]
          /\ csvWriter' = "generateCSV"
          /\ csvOutput' = generateCSV(csvHeaders', csvRows')
  /\ UNCHANGED <<tvars, wvars, dvars, svars, fvars, pvars>>

NextAccess ==
  \/ \E c \in HeaderIds : accessSort(c)
  \/ \E c \in FilterInputIds, t \in AllTexts(MaxTextLen) : accessFilter(c, t)
  \/ accessExport

SpecAccess == InitAccess /\ [][NextAccess]_vars

(***************************************************************************)
(* Claim on row access errors (checked under SpecAccess)                   *)
(***************************************************************************)
\* C23: row access errors are contained. When a column accessor throws for
\* some row, deriving the view (filter, sort) and exporting complete without
\* raising, and every row of the data stays in the exported result.
C23_AccessContained ==
  /\ accessOutcome \notin {"viewRaised", "exportRaised"}
  /\ accessOutcome = "exportDone" => Len(csvRows) = Len(data)

(***************************************************************************)
(* DataTable / useDataTable: selectedRows and batch actions                *)
(***************************************************************************)
MaxVersions == 2

enableRowSelection == TRUE

DtIds == <<"r1", "r2">>

\* a row object: its id (getRowId) and the version of its content
DtRow(id, version) == [id |-> id, v |-> version]

\* the datasets: each id absent or present in one of its versions
DtDataSets ==
  {SelectSeq([k \in 1..Len(DtIds) |-> DtRow(DtIds[k], f[k])],
             LAMBDA row : row.v # 0) :
     f \in [1..Len(DtIds) -> 0..MaxVersions]}

\* table.getSelectedRowModel().rows.map(row => row.original): the rows of the
\* data whose id is a key of rowSelection
selectedRowModelOf(d, sel) == SelectSeq(d, LAMBDA row : row.id \in sel)

\* the value the useMemo callback of selectedRows returns
computeSelectedRows(d, sel) ==
  IF ~enableRowSelection THEN <<>> ELSE selectedRowModelOf(d, sel)

InitBatch ==
  /\ dtData \in DtDataSets
  /\ rowSelection = {}
  /\ dtSelectedRows = computeSelectedRows(dtData, rowSelection)
  /\ batchRows = <<>>
  /\ TIdle /\ WIdle /\ CIdle /\ AIdle /\ SIdle /\ FIdle /\ PIdle

\* the checkbox of a row: onRowSelectionChange = setRowSelection; rowSelection
\* is a dependency of the selectedRows memo
toggleRowSelected(id) ==
  /\ enableRowSelection
  /\ \E k \in 1..Len(dtData) : dtData[k].id = id
  /\ rowSelection' = IF id \in rowSelection THEN rowSelection \ {id}
                     ELSE rowSelection \cup {id}
  /\ dtSelectedRows' = computeSelectedRows(dtData, rowSelection')
  /\ UNCHANGED <<dtData, batchRows>>
  /\ UNCHANGED <<wvars, tvars, cvars, avars, svars, fvars, pvars>>

\* the parent renders the table with another data prop: the table instance is
\* the same object and rowSelection is unchanged, the dependencies
\* [table, rowSelection, enableRowSelection] are equal and the memo is kept
dtSetData(d) ==
  /\ d # dtData
  /\ dtData' = d
  /\ UNCHANGED <<rowSelection, dtSelectedRows, batchRows>>
  /\ UNCHANGED <<wvars, tvars, cvars, avars, svars, fvars, pvars>>

\* clearSelection: setRowSelection({}) with a new object
clearSelection ==
  /\ rowSelection' = {}
  /\ dtSelectedRows' = computeSelectedRows(dtData, rowSelection')
  /\ UNCHANGED <<dtData, batchRows>>
  /\ UNCHANGED <<wvars, tvars, cvars, avars, svars, fvars, pvars>>

\* handleBatchAction(actionId) with an onBatchAction prop
handleBatchAction ==
  /\ Len(dtSelectedRows) > 0
  /\ batchRows' = dtSelectedRows
  /\ UNCHANGED <<dtData, rowSelection, dtSelectedRows>>
  /\ UNCHANGED <<wvars, tvars, cvars, avars, svars, fvars, pvars>>

NextBatch ==
  \/ \E id \in Range(DtIds) : toggleRowSelected(id)
  \/ \E d \in DtDataSets : dtSetData(d)
  \/ clearSelection
  \/ handleBatchAction

SpecBatch == InitBatch /\ [][NextBatch]_vars

(***************************************************************************)
(* Claim on batch actions (checked under SpecBatch)                        *)
(***************************************************************************)
\* C24: batch actions receive the currently selected row objects. The rows a
\* batch action forwards are exactly the rows of the current dataset whose id
\* is selected, at least one; after the dataset was replaced with the
\* selection unchanged they are rows of the new dataset.
C24_BatchRowsCurrent ==
  [][handleBatchAction =>
       /\ batchRows' = selectedRowModelOf(dtData, rowSelection)
       /\ Len(batchRows') > 0]_vars

(***************************************************************************)
(* useWebSocket                                                            *)
(***************************************************************************)
MaxSockets == 4

MaxTimeouts == 3

\* the maxReconnectAttempts option
maxReconnectAttempts == 2

\* socket.close(): a connecting or open socket starts closing and its close
\* event is pending; a closing or closed socket is left as it is
CloseSocket(socks, s) ==
  IF s # 0 /\ socks[s] \in {"connecting", "open"}
  THEN [socks EXCEPT ![s] = "closing"]
  ELSE socks

\* connect(): closes the socket of socketRef, creates a WebSocket with its
\* handlers and stores it in socketRef
connect ==
  /\ Len(sockets) < MaxSockets
  /\ sockets' = Append(CloseSocket(sockets, socketRef), "connecting")
  /\ socketRef' = Len(sockets) + 1
  /\ readyState' = "connecting"

\* the mount effect: if (autoConnect) connect()
InitSocket ==
  /\ \E autoConnect \in BOOLEAN :
       IF autoConnect
       THEN /\ sockets = <<"connecting">>
            /\ socketRef = 1
            /\ readyState = "connecting"
       ELSE /\ sockets = <<>>
            /\ socketRef = 0
            /\ readyState = "closed"
  /\ reconnectAttemptsRef = 0
  /\ reconnectTimers = {}
  /\ reconnectTimerRef = 0
  /\ timeoutCount = 0
  /\ heartbeatTimerRef = FALSE
  /\ disconnected = FALSE
  /\ TIdle /\ WIdle /\ CIdle /\ AIdle /\ DIdle /\ FIdle /\ PIdle

\* ws.onopen of socket s
onopen(s) ==
  /\ sockets[s] = "connecting"
  /\ sockets' = [sockets EXCEPT ![s] = "open"]
  /\ readyState' = "open"
  /\ reconnectAttemptsRef' = 0
  /\ heartbeatTimerRef' = TRUE
  /\ UNCHANGED <<socketRef, reconnectTimers, reconnectTimerRef, timeoutCount,
                 disconnected>>
  /\ UNCHANGED <<wvars, tvars, cvars, avars, dvars, fvars, pvars>>

\* ws.onclose of socket s: the close event of a socket closed by close(), by
\* the server or by the network
onclose(s) ==
  /\ sockets[s] \in {"connecting", "open", "closing"}
  /\ sockets' = [sockets EXCEPT ![s] = "closed"]
  /\ readyState' = "closed"
  /\ heartbeatTimerRef' = FALSE
  /\ IF reconnectAttemptsRef < maxReconnectAttempts
     THEN /\ timeoutCount < MaxTimeouts
          /\ reconnectAttemptsRef' = reconnectAttemptsRef + 1
          /\ timeoutCount' = timeoutCount + 1
          /\ reconnectTimers' = reconnectTimers \cup {timeoutCount + 1}
          /\ reconnectTimerRef' = timeoutCount + 1
     ELSE UNCHANGED <<reconnectAttemptsRef, timeoutCount, reconnectTimers,
                      reconnectTimerRef>>
  /\ UNCHANGED <<socketRef, disconnected>>
  /\ UNCHANGED <<wvars, tvars, cvars, avars, dvars, fvars, pvars>>

\* ws.onerror of socket s; the browser closes the socket after the error
onerror(s) ==
  /\ sockets[s] \in {"connecting", "open"}
  /\ sockets' = [sockets EXCEPT ![s] = "closing"]
  /\ readyState' = "closed"
  /\ UNCHANGED <<socketRef, reconnectAttemptsRef, reconnectTimers,
                 reconnectTimerRef, timeoutCount, heartbeatTimerRef,
                 disconnected>>
  /\ UNCHANGED <<wvars, tvars, cvars, avars, dvars, fvars, pvars>>

\* a setTimeout(connect, delay) timer runs
reconnectTimerFires(t) ==
  /\ t \in reconnectTimers
  /\ reconnectTimers' = reconnectTimers \ {t}
  /\ connect
  /\ UNCHANGED <<reconnectAttemptsRef, reconnectTimerRef, timeoutCount,
                 heartbeatTimerRef, disconnected>>
  /\ UNCHANGED <<wvars, tvars, cvars, avars, dvars, fvars, pvars>>

\* disconnect()
disconnect ==
  /\ reconnectAttemptsRef' = maxReconnectAttempts
  /\ reconnectTimers' = reconnectTimers \ {reconnectTimerRef}
  /\ heartbeatTimerRef' = FALSE
  /\ sockets' = CloseSocket(sockets, socketRef)
  /\ socketRef' = 0
  /\ readyState' = "closed"
  /\ disconnected' = TRUE
  /\ UNCHANGED <<reconnectTimerRef, timeoutCount>>
  /\ UNCHANGED <<wvars, tvars, cvars, avars, dvars, fvars, pvars>>

\* reconnect()
reconnect ==
  /\ reconnectAttemptsRef' = 0
  /\ connect
  /\ disconnected' = FALSE
  /\ UNCHANGED <<reconnectTimers, reconnectTimerRef, timeoutCount,
                 heartbeatTimerRef>>
  /\ UNCHANGED <<wvars, tvars, cvars, avars, dvars, fvars, pvars>>

NextSocket ==
  \/ \E s \in 1..Len(sockets) : onopen(s)
  \/ \E s \in 1..Len(sockets) : onclose(s)
  \/ \E s \in 1..Len(sockets) : onerror(s)
  \/ \E t \in reconnectTimers : reconnectTimerFires(t)
  \/ disconnect
  \/ reconnect

SpecSocket == InitSocket /\ [][NextSocket]_vars

(***************************************************************************)
(* Claim on disconnect (checked under SpecSocket)                          *)
(***************************************************************************)
\* C28: disconnect is final. After disconnect() no WebSocket is created until
\* reconnect() is called: a step taken while disconnected that creates a
\* socket is the reconnect() call, whatever close events and reconnect timers
\* are pending.
C28_DisconnectFinal ==
  [][(disconnected /\ Len(sockets') > Len(sockets)) => ~disconnected']_vars

(***************************************************************************)
(* useCachedWidget                                                         *)
(***************************************************************************)
MaxFetches == 3

MaxHashes == 2

\* the staleWhileRevalidate option
staleWhileRevalidate == TRUE

\* the cache hit of doFetch: an entry of the same filter hash younger than ttl
CacheHit(cached, hash) ==
  cached # NoCache /\ cached.filterHash = hash /\ cached.fresh

\* doFetch() up to its await, for the closure's filter hash and the cache
\* entry it reads: a cache hit exposes the entry and returns; else a stale
\* entry of the same hash is exposed and fetcherRef.current() is called
startFetch(cached, hash) ==
  IF CacheHit(cached, hash)
  THEN /\ cwData' = cached.data
       /\ UNCHANGED fetches
  ELSE /\ Len(fetches) < MaxFetches
       /\ cwData' = IF cached # NoCache /\ staleWhileRevalidate
                       /\ cached.filterHash = hash
                    THEN cached.data ELSE cwData
       /\ fetches' = Append(fetches, [hash |-> hash,
                                      hadCache |-> cached # NoCache,
                                      status |-> "pending"])

\* the state after the mount effect called doFetch with an empty cache
InitFetch ==
  /\ currentFilterHash \in 1..MaxHashes
  /\ fetches = <<[hash |-> currentFilterHash, hadCache |-> FALSE,
                  status |-> "pending"]>>
  /\ cwData = 0
  /\ cacheRef = NoCache
  /\ TIdle /\ WIdle /\ CIdle /\ AIdle /\ DIdle /\ SIdle /\ PIdle

\* the dashboard filters change: doFetch is a new callback and the effect
\* calls it
filtersChange(h) ==
  /\ h # currentFilterHash
  /\ currentFilterHash' = h
  /\ startFetch(cacheRef, h)
  /\ UNCHANGED cacheRef
  /\ UNCHANGED <<wvars, tvars, cvars, avars, dvars, svars, pvars>>

\* lastRefreshed changes: the effect calls doFetch
lastRefreshedChanges ==
  /\ startFetch(cacheRef, currentFilterHash)
  /\ UNCHANGED <<currentFilterHash, cacheRef>>
  /\ UNCHANGED <<wvars, tvars, cvars, avars, dvars, svars, pvars>>

\* refetch(): cacheRef.current = null; doFetch()
refetch ==
  /\ cacheRef' = NoCache
  /\ startFetch(NoCache, currentFilterHash)
  /\ UNCHANGED currentFilterHash
  /\ UNCHANGED <<wvars, tvars, cvars, avars, dvars, svars, pvars>>

\* the promise of fetch k fulfils: the continuation of that doFetch call
\* stores its result under the filter hash of its closure
fetchFulfils(k) ==
  /\ fetches[k].status = "pending"
  /\ fetches' = [fetches EXCEPT ![k].status = "ok"]
  /\ cacheRef' = [data |-> k, filterHash |-> fetches[k].hash, fresh |-> TRUE]
  /\ cwData' = k
  /\ UNCHANGED currentFilterHash
  /\ UNCHANGED <<wvars, tvars, cvars, avars, dvars, svars, pvars>>

\* the promise of fetch k rejects: if (!cached) setData(null)
fetchRejects(k) ==
  /\ fetches[k].status = "pending"
  /\ fetches' = [fetches EXCEPT ![k].status = "failed"]
  /\ cwData' = IF fetches[k].hadCache THEN cwData ELSE 0
  /\ UNCHANGED <<currentFilterHash, cacheRef>>
  /\ UNCHANGED <<wvars, tvars, cvars, avars, dvars, svars, pvars>>

\* time passes: the cache entry gets older than ttl
cacheExpires ==
  /\ cacheRef # NoCache
  /\ cacheRef.fresh
  /\ cacheRef' = [cacheRef EXCEPT !.fresh = FALSE]
  /\ UNCHANGED <<currentFilterHash, fetches, cwData>>
  /\ UNCHANGED <<wvars, tvars, cvars, avars, dvars, svars, pvars>>

NextFetch ==
  \/ \E h \in 1..MaxHashes : filtersChange(h)
  \/ lastRefreshedChanges
  \/ refetch
  \/ \E k \in 1..Len(fetches) : fetchFulfils(k)
  \/ \E k \in 1..Len(fetches) : fetchRejects(k)
  \/ cacheExpires

SpecFetch == InitFetch /\ [][NextFetch]_vars

(***************************************************************************)
(* Claim on overlapping fetches (checked under SpecFetch)                  *)
(***************************************************************************)
\* C29: the last request wins. When every fetch has settled and the most
\* recently started one was fulfilled, the exposed data and the cache entry
\* are the result of that fetch.
C29_LastRequestWins ==
  (/\ \A k \in 1..Len(fetches) : fetches[k].status # "pending"
   /\ fetches[Len(fetches)].status = "ok")
    => (cwData = Len(fetches) /\ cacheRef.data = Len(fetches))

(***************************************************************************)
(* useSmartPolling                                                         *)
(***************************************************************************)
MaxIntervals == 4

MaxTimerFetches == 2

\* the pauseOnHidden option
pauseOnHidden == TRUE

\* if (timerRef.current) { clearInterval(timerRef.current); timerRef.current = null }
clearTimerRef ==
  /\ intervals' = intervals \ {timerRef}
  /\ timerRef' = 0
  /\ UNCHANGED intervalCount

\* timerRef.current = setInterval(doFetch, ...): a new timer is stored, the
\* timer timerRef held before keeps running
setTimerRef ==
  /\ intervalCount < MaxIntervals
  /\ intervalCount' = intervalCount + 1
  /\ intervals' = intervals \cup {intervalCount + 1}
  /\ timerRef' = intervalCount + 1

\* the state after the mount effects, for each enabled option and each
\* visibility of the tab at mount
InitPolling ==
  /\ isPolling \in BOOLEAN
  /\ documentHidden \in BOOLEAN
  /\ IF isPolling
     THEN /\ intervals = {1}
          /\ timerRef = 1
          /\ intervalCount = 1
     ELSE /\ intervals = {}
          /\ timerRef = 0
          /\ intervalCount = 0
  /\ timerFetches = 0
  /\ TIdle /\ WIdle /\ CIdle /\ AIdle /\ DIdle /\ SIdle /\ FIdle

\* start(): setIsPolling(true); the start/stop effect runs and sets the timer
start ==
  /\ ~isPolling
  /\ isPolling' = TRUE
  /\ setTimerRef
  /\ UNCHANGED <<documentHidden, timerFetches>>
  /\ UNCHANGED <<wvars, tvars, cvars, avars, dvars, svars, fvars>>

\* pause(): setIsPolling(false); the cleanup of the start/stop effect clears
\* the timer of timerRef, the effect then finds timerRef null
pause ==
  /\ isPolling
  /\ isPolling' = FALSE
  /\ clearTimerRef
  /\ UNCHANGED <<documentHidden, timerFetches>>
  /\ UNCHANGED <<wvars, tvars, cvars, avars, dvars, svars, fvars>>

\* visibilitychange with document.hidden true
tabHidden ==
  /\ pauseOnHidden
  /\ ~documentHidden
  /\ documentHidden' = TRUE
  /\ clearTimerRef
  /\ UNCHANGED <<isPolling, timerFetches>>
  /\ UNCHANGED <<wvars, tvars, cvars, avars, dvars, svars, fvars>>

\* visibilitychange with document.hidden false
tabVisible ==
  /\ pauseOnHidden
  /\ documentHidden
  /\ documentHidden' = FALSE
  /\ IF isPolling THEN setTimerRef
     ELSE UNCHANGED <<intervals, timerRef, intervalCount>>
  /\ UNCHANGED <<isPolling, timerFetches>>
  /\ UNCHANGED <<wvars, tvars, cvars, avars, dvars, svars, fvars>>

\* an active interval timer calls doFetch
intervalFires(t) ==
  /\ t \in intervals
  /\ timerFetches < MaxTimerFetches
  /\ timerFetches' = timerFetches + 1
  /\ UNCHANGED <<isPolling, documentHidden, timerRef, intervals, intervalCount>>
  /\ UNCHANGED <<wvars, tvars, cvars, avars, dvars, svars, fvars>>

NextPolling ==
  \/ start
  \/ pause
  \/ tabHidden
  \/ tabVisible
  \/ \E t \in intervals : intervalFires(t)

SpecPolling == InitPolling /\ [][NextPolling]_vars

(***************************************************************************)
(* Claim on pausing (checked under SpecPolling)                            *)
(***************************************************************************)
\* C30: pause stops polling. In every state in which isPolling is false no
\* interval timer is active, so no timer calls doFetch until start().
C30_PausedNoTimer ==
  ~isPolling => intervals = {}

====
